---- MODULE Spec2Model ----
(***************************************************************************)
(* Graphinator (src/src/graphinator.ts): the per-flow gas price ceiling,   *)
(* the filter / sort / chunk selection and the per-batch submission of     *)
(* processAll, as a state machine with one step per awaited call.  Spec    *)
(* is the run, SpecLive the run with its steps taken fairly, SpecSelect    *)
(* the policy and the selection on inputs of their own.                    *)
(*                                                                         *)
(* Units.  TLC integers are 32 bit, so amounts are measured in units of    *)
(* 10^17 wei: the source's refDailyNFR = 1e18 is 10 units.  Token prices   *)
(* are the rationals priceNum / PriceDen USD.  Gas prices are in wei.      *)
(* JS doubles are modelled as exact rationals, NaN as a value of its own.  *)
(***************************************************************************)
EXTENDS Integers, Sequences, FiniteSets, TLC

VARIABLES
    pc,                     \* position of the run
    error,                  \* the error that left the constructor or processAll, "none" if none
    batchSize,              \* this.batchSize
    referenceGasPriceLimit, \* this.referenceGasPriceLimit
    fallbackGasPriceLimit,  \* this.fallbackGasPriceLimit
    minGasPriceLimit,       \* this.minGasPriceLimit
    tokenPrices,            \* this.tokenPrices: token -> priceNum, absent tokens outside its domain
    DRY_RUN,                \* process.env.DRY_RUN is set
    isListed,               \* this.isListed: "true", "false" or "undefined"
    token,                  \* the argument of processAll: <<>> (none) or <<address>>
    tokenAddrs,             \* processAll's tokenAddrs
    ti,                     \* index in tokenAddrs of the token being processed
    flowsToLiquidate,       \* the flows the Flow Source returned for the current token
    currentGasPrice,        \* the fee reading of the current token
    chunks,                 \* the batches of the current token
    ci,                     \* index in chunks of the batch being submitted
    tx,                     \* the request being assembled in batchLiquidateFlows
    outcome,                \* outcome of the last finished batch
    chainNonce,             \* network: confirmed transaction count of the wallet
    pending,                \* network: the wallet's broadcast but unmined transaction, <<>> if none
    lastSent,               \* history: nonce of the last accepted broadcast and whether it was mined
    feeMissing,             \* history: the last provider.getFeeData returned no gas price
    feeReads,               \* history: the token index of the last provider.getFeeData call, the
                            \* number of these calls made for that token, the last gas price read
    signCalls,              \* history: wallet.signTransaction calls of the last started batch
    broadcastCalls,         \* history: provider.broadcastTransaction calls of the last started batch
    listingQueries          \* history: the argument of every dataFetcher.getSuperTokens call

vars == <<pc, error, batchSize, referenceGasPriceLimit, fallbackGasPriceLimit,
          minGasPriceLimit, tokenPrices, DRY_RUN, token, tokenAddrs, ti,
          flowsToLiquidate, currentGasPrice, chunks, ci, tx, outcome,
          chainNonce, pending, lastSent, feeMissing, feeReads, signCalls, broadcastCalls,
          isListed, listingQueries>>

configVars == <<batchSize, referenceGasPriceLimit, fallbackGasPriceLimit,
                minGasPriceLimit, tokenPrices, DRY_RUN, token, isListed>>

universeVars == <<tokenAddrs, listingQueries>>

feeVars == <<feeMissing, feeReads>>

netVars == <<chainNonce, pending, lastSent, signCalls, broadcastCalls>>

(***************************************************************************)
(* Bounds and input sets                                                   *)
(***************************************************************************)
\* longest flow list the Flow Source returns for one token
MaxFlows == 3

\* largest confirmed transaction count of the wallet when the run starts
MaxInitNonce == 0

\* the Super Tokens of the network in the order the Token Listing Source returns them,
\* and the listed (curated) ones among them
SuperTokens == <<"t1", "t2">>

IsListedToken(t) == t = "t1"

ListedTokens == SelectSeq(SuperTokens, IsListedToken)

\* a JS value used as a condition
Truthy(v) == v = "true"

\* dataFetcher.getSuperTokens(isListedOnly): the listed tokens only, or all of them
getSuperTokens(isListedOnly) == IF Truthy(isListedOnly) THEN ListedTokens ELSE SuperTokens

Max(a, b) == IF a >= b THEN a ELSE b

Min(a, b) == IF a <= b THEN a ELSE b

\* Math.round(n / d) for d > 0: the nearest integer, halves towards +infinity
Round(n, d) == (2 * n + d) \div (2 * d)

\* Math.floor(n / d) for d > 0
Floor(n, d) == n \div d

\* the number NaN, which parseInt gives for a text that starts with no digit; it is kept
\* apart from every amount and every gas price of the model
NaN == -1000000

IsNaN(x) == x = NaN

\* a > b, a >= b and a <= b on numbers: false as soon as one side is NaN
Gt(a, b) == ~IsNaN(a) /\ ~IsNaN(b) /\ a > b

Geq(a, b) == ~IsNaN(a) /\ ~IsNaN(b) /\ a >= b

Leq(a, b) == ~IsNaN(a) /\ ~IsNaN(b) /\ a <= b

\* a * b, Math.max(a, b) and Math.round(n / d): NaN as soon as one operand is NaN
Times(a, b) == IF IsNaN(a) \/ IsNaN(b) THEN NaN ELSE a * b

MathMax(a, b) == IF IsNaN(a) \/ IsNaN(b) THEN NaN ELSE Max(a, b)

MathRound(n, d) == IF IsNaN(n) THEN NaN ELSE Round(n, d)

(***************************************************************************)
(* Gas Price Policy: _calculateMaxGasPrice                                 *)
(***************************************************************************)
secondsPerDay == 86400

\* denominator of the token prices: tokenPrices[t] = n stands for n / PriceDen USD
PriceDen == 3 * secondsPerDay

\* const refDailyNFR = 1e18: a daily flow of one token (1 USD at price 1), which is 10
\* in the model's unit of 10^17 wei; flowrate, dailyNFR and refDailyNFR share the unit
refDailyNFR == 10

\* const dailyNFR = tokenPrice ? Math.round(flowrate * 86400 * tokenPrice) : undefined
HasTokenPrice(flow, prices) == flow.token \in DOMAIN prices /\ prices[flow.token] # 0

DailyNFR(flow, prices) == Round(flow.flowrate * secondsPerDay * prices[flow.token], PriceDen)

\* dailyNFR ? Math.max(minGasPriceLimit, Math.round(dailyNFR * referenceGasPriceLimit / refDailyNFR))
\*          : fallbackGasPriceLimit          (dailyNFR undefined, 0 or NaN are falsy)
BaseMaxGasPrice(flow, prices) ==
    IF HasTokenPrice(flow, prices) /\ DailyNFR(flow, prices) # 0
    THEN MathMax(minGasPriceLimit,
                 MathRound(Times(DailyNFR(flow, prices), referenceGasPriceLimit), refDailyNFR))
    ELSE fallbackGasPriceLimit

\* the flow's consumedDepositPercentage when the Flow Source gave none
undefinedPct == -1

\* timeMultiplier as the rational TimeMultiplierNum / TimeMultiplierDen:
\*   hoursSinceInsolvent = (pct - 100) * 4 / 100;  daysSinceInsolvent = hours / 24
\*   timeMultiplier = 1 + Math.min(daysSinceInsolvent, 10)
TimeMultiplierDen == 100 * 24

\* variant: the cap of 10 days left out
TimeMultiplierNumUncapped(flow) ==
    LET pct == flow.consumedDepositPercentage
    IN  IF pct # undefinedPct /\ pct # 0 /\ pct > 100
        THEN TimeMultiplierDen + (pct - 100) * 4
        ELSE TimeMultiplierDen

TimeMultiplierNum(flow) ==
    LET pct == flow.consumedDepositPercentage
    IN  IF pct # undefinedPct /\ pct # 0 /\ pct > 100
        THEN TimeMultiplierDen + Min((pct - 100) * 4, 10 * TimeMultiplierDen)
        ELSE TimeMultiplierDen

\* return Math.round(baseMaxGasPrice * timeMultiplier)
CalculateMaxGasPriceWith(flow, prices) ==
    MathRound(Times(BaseMaxGasPrice(flow, prices), TimeMultiplierNum(flow)), TimeMultiplierDen)

_calculateMaxGasPrice(flow) == CalculateMaxGasPriceWith(flow, tokenPrices)

(***************************************************************************)
(* Batch Selector: filter, stable sort descending, _chunkArray             *)
(***************************************************************************)
\* flowsToLiquidate.filter(flow => this._calculateMaxGasPrice(flow) >= currentGasPrice)
RECURSIVE FilterWorth(_, _)
FilterWorth(flows, gasPrice) ==
    IF flows = <<>> THEN <<>>
    ELSE IF Geq(_calculateMaxGasPrice(Head(flows)), gasPrice)
         THEN <<Head(flows)>> \o FilterWorth(Tail(flows), gasPrice)
         ELSE FilterWorth(Tail(flows), gasPrice)

\* Array.prototype.sort with (a, b) => max(b) - max(a): stable, descending by ceiling
\* (the flows it is given passed the filter, so none of their ceilings is NaN)
RECURSIVE InsertDesc(_, _)
InsertDesc(flow, sorted) ==
    IF sorted = <<>> THEN <<flow>>
    ELSE IF _calculateMaxGasPrice(Head(sorted)) >= _calculateMaxGasPrice(flow)
         THEN <<Head(sorted)>> \o InsertDesc(flow, Tail(sorted))
         ELSE <<flow>> \o sorted

RECURSIVE SortDesc(_)
\* variant: the sort left out
SortDescNone(flows) == flows

SortDesc(flows) ==
    IF flows = <<>> THEN <<>>
    ELSE InsertDesc(flows[Len(flows)], SortDesc(SubSeq(flows, 1, Len(flows) - 1)))

\* for (let i = 0; i < array.length; i += size) chunks.push(array.slice(i, i + size))
RECURSIVE _chunkArray(_, _)
\* variant: a last chunk shorter than size is dropped
ChunkArrayDropTail(array, size) ==
    IF array = <<>> \/ Len(array) < size THEN <<>>
    ELSE <<SubSeq(array, 1, size)>> \o _chunkArray(SubSeq(array, size + 1, Len(array)), size)

\* the loop of _chunkArray comes to an end: with size <= 0 the index i never reaches
\* array.length
ChunkArrayLoopEnds(array, size) == array = <<>> \/ size >= 1

_chunkArray(array, size) ==
    IF array = <<>> THEN <<>>
    ELSE <<SubSeq(array, 1, Min(size, Len(array)))>>
         \o _chunkArray(SubSeq(array, Min(size, Len(array)) + 1, Len(array)), size)

(***************************************************************************)
(* The run: constructor, processAll, batchLiquidateFlows                   *)
(***************************************************************************)
\* the shapes of the flows the Flow Source returns
FlowShapes ==
    { [flowrate |-> 1, consumedDepositPercentage |-> 50],
      [flowrate |-> 3, consumedDepositPercentage |-> 700] }

\* a token other than t
ForeignToken(t) == IF t = "t1" THEN "t2" ELSE "t1"

\* what the Flow Source may return in one place of the list for token t: a flow of t of
\* either shape, or (a faulty source) a flow of another token
FlowChoices(t) ==
    { [token |-> t, flowrate |-> s.flowrate,
       consumedDepositPercentage |-> s.consumedDepositPercentage] : s \in FlowShapes }
    \cup { [token |-> ForeignToken(t), flowrate |-> 1, consumedDepositPercentage |-> 50] }

\* the flow lists the Flow Source may return for token t, the flows told apart by id;
\* a flow of another token comes first in the list, the sort placing it by its ceiling
FlowLists(t) ==
    UNION { { [i \in 1..n |-> [id |-> i, token |-> f[i].token, flowrate |-> f[i].flowrate,
                               consumedDepositPercentage |-> f[i].consumedDepositPercentage]]
              : f \in { g \in [1..n -> FlowChoices(t)] : \A i \in 2..n : g[i].token = t } }
            : n \in 0..MaxFlows }

\* Number((await provider.getFeeData()).gasPrice): 0 stands for a null gas price
FeeReadings == {0, 100, 250, 5000}

\* the (reference, fallback, min) limits the run is constructed with: the entry point
\* multiplies the options by 1000000 and derives a fallback and a minimum that were not
\* given as 10 and 0.1 times the reference; the last one is what it computes from a
\* REFERENCE_GAS_PRICE_LIMIT_MWEI that is no number (NaN * 1000000, NaN * 10, NaN * 0.1)
LimitConfigs ==
    { [reference |-> 100, fallback |-> 1000, min |-> 10],
      [reference |-> 100, fallback |-> 1000, min |-> 200],
      [reference |-> NaN, fallback |-> NaN, min |-> NaN] }

\* the batch sizes the run is constructed with: the constructor takes any number
BatchSizes == {0, 1, 2}

\* String.prototype.toLowerCase on the addresses of the model
ToLowerCase(a) == IF a = "T1" THEN "t1" ELSE a

NoTx == [to |-> "", data |-> <<>>, gasLimit |-> 0, gasPrice |-> 0, chainId |-> 0, nonce |-> -1]

NoOutcome == [kind |-> "none", error |-> "none", logged |-> <<>>, token |-> 0, batch |-> 0]

\* provider.estimateGas for a batch of n flows; the network's chain id
GasEstimate(n) == 100 * n

ChainId == "chainId"

\* the default gas multiplier 1.2 as 12 / 10
gasMultiplierNum == 12

gasMultiplierDen == 10

\* the seventh argument of new Graphinator(...) at the entry point: none is passed
IsListedArgument == "undefined"

Init ==
    /\ pc = "new"
    /\ error = "none"
    /\ batchSize \in BatchSizes
    /\ \E l \in LimitConfigs :
         /\ referenceGasPriceLimit = l.reference
         /\ fallbackGasPriceLimit = l.fallback
         /\ minGasPriceLimit = l.min
    /\ tokenPrices = [t \in {"t1"} |-> 30]
    /\ DRY_RUN \in BOOLEAN
    /\ isListed = IsListedArgument
    /\ token \in {<<>>, <<"T1">>}
    /\ tokenAddrs = <<>>
    /\ listingQueries = <<>>
    /\ ti = 0
    /\ flowsToLiquidate = <<>>
    /\ currentGasPrice = 0
    /\ chunks = <<>>
    /\ ci = 0
    /\ tx = NoTx
    /\ outcome = NoOutcome
    /\ chainNonce \in 0..MaxInitNonce
    /\ pending = <<>>
    /\ lastSent = [nonce |-> -1, mined |-> FALSE]
    /\ feeMissing = FALSE
    /\ feeReads = [token |-> 0, count |-> 0, gasPrice |-> 0]
    /\ signCalls = 0
    /\ broadcastCalls = 0

\* an error leaves the constructor (fatal) or processAll (aborted): nothing catches it
Raise(where, err) ==
    /\ pc' = where
    /\ error' = err
    /\ UNCHANGED <<configVars, universeVars, ti, flowsToLiquidate, currentGasPrice,
                   chunks, ci, tx, outcome, netVars>>

Throw(where, err) == Raise(where, err) /\ UNCHANGED feeVars

\* if (this.minGasPriceLimit > this.fallbackGasPriceLimit
\*     || this.minGasPriceLimit > this.referenceGasPriceLimit) throw
PolicyOrderingViolated ==
    \/ Gt(minGasPriceLimit, fallbackGasPriceLimit)
    \/ Gt(minGasPriceLimit, referenceGasPriceLimit)

\* constructor: the policy ordering check
Construct ==
    /\ pc = "new"
    /\ IF PolicyOrderingViolated
       THEN Throw("fatal", "minGasPriceLimit must be less than fallbackGasPriceLimit and less than referenceGasPriceLimit")
       ELSE /\ pc' = "constructed"
            /\ UNCHANGED <<error, configVars, universeVars, ti, flowsToLiquidate,
                           currentGasPrice, chunks, ci, tx, outcome, netVars, feeVars>>

\* constructor: the network is not in the metadata, PRIVATE_KEY is not set, or the
\* metadata names no forwarder; all of them come after the ordering check
ConstructFails ==
    /\ pc = "new"
    /\ ~PolicyOrderingViolated
    /\ Throw("fatal", "No private key provided")

\* (await this.dataFetcher.getSuperTokens(isListed)).map(token => token.id.toLowerCase())
_getSuperTokens(isListedOnly) ==
    [i \in 1..Len(getSuperTokens(isListedOnly)) |-> ToLowerCase(getSuperTokens(isListedOnly)[i])]

\* processAll: the token universe
ResolveTokens ==
    /\ pc = "constructed"
    /\ IF token # <<>>
       THEN /\ tokenAddrs' = <<ToLowerCase(token[1])>>
            /\ listingQueries' = listingQueries
       ELSE /\ tokenAddrs' = _getSuperTokens(isListed)
            /\ listingQueries' = Append(listingQueries, isListed)
    /\ ti' = 1
    /\ pc' = "fetch"
    /\ UNCHANGED <<error, configVars, flowsToLiquidate, currentGasPrice, chunks, ci,
                   tx, outcome, netVars, feeVars>>

\* ethers.resolveAddress or dataFetcher.getSuperTokens throws
ResolveTokensFails ==
    /\ pc = "constructed"
    /\ pc' = "aborted"
    /\ error' = IF token # <<>> THEN "resolveAddress" ELSE "getSuperTokens"
    /\ listingQueries' = IF token # <<>> THEN listingQueries
                          ELSE Append(listingQueries, isListed)
    /\ UNCHANGED <<configVars, tokenAddrs, ti, flowsToLiquidate, currentGasPrice,
                   chunks, ci, tx, outcome, netVars, feeVars>>

\* the for loop over tokenAddrs moves on
EndOfToken ==
    /\ flowsToLiquidate' = <<>>
    /\ currentGasPrice' = 0
    /\ chunks' = <<>>
    /\ ci' = 0
    /\ tx' = NoTx
    /\ IF ti < Len(tokenAddrs)
       THEN pc' = "fetch" /\ ti' = ti + 1
       ELSE pc' = "done" /\ ti' = ti

\* batchLiquidateFlows returned with outcome o, which is recorded for the batch at
\* <<ti, ci>>: the for loop over chunks moves on
BatchReturns(o) ==
    /\ outcome' = [kind |-> o.kind, error |-> o.error, logged |-> o.logged,
                   token |-> ti, batch |-> ci]
    /\ error' = error
    /\ UNCHANGED feeVars
    /\ IF ci < Len(chunks)
       THEN /\ pc' = "assemble"
            /\ ci' = ci + 1
            /\ tx' = NoTx
            /\ UNCHANGED <<ti, flowsToLiquidate, currentGasPrice, chunks>>
       ELSE EndOfToken

\* variant: an error thrown inside batchLiquidateFlows leaves it uncaught
BatchThrowsUncaught(err) ==
    /\ pc' = "aborted"
    /\ error' = err
    /\ UNCHANGED feeVars
    /\ UNCHANGED <<ti, flowsToLiquidate, currentGasPrice, chunks, ci, tx, outcome>>

\* an error thrown inside batchLiquidateFlows: the catch of lines 204-206 logs it and
\* the function returns
BatchThrows(err) == BatchReturns([kind |-> "Failed", error |-> err, logged |-> <<>>])

\* dataFetcher.getFlowsToLiquidate
GetFlowsToLiquidate ==
    /\ pc = "fetch"
    /\ \E flows \in FlowLists(tokenAddrs[ti]) :
         IF Len(flows) > 0
         THEN /\ flowsToLiquidate' = flows
              /\ pc' = "fee"
              /\ UNCHANGED <<ti, currentGasPrice, chunks, ci, tx>>
         ELSE EndOfToken
    /\ UNCHANGED <<error, configVars, universeVars, outcome, netVars, feeVars>>

GetFlowsToLiquidateFails ==
    /\ pc = "fetch"
    /\ Throw("aborted", "getFlowsToLiquidate")

\* variant: the bid is the fee reading without the margin
BidPriceNoMargin(gasPrice) == gasPrice

\* the bid: Math.floor(currentGasPrice * 1.2)
BidPrice(gasPrice) == Floor(gasPrice * 12, 10)

\* filter, sort, chunk of lines 120-127
Select(flows, gasPrice, size) == _chunkArray(SortDesc(FilterWorth(flows, gasPrice)), size)

\* variant: a missing gas price skips the token
MissingGasPriceSkipsToken ==
    /\ EndOfToken
    /\ UNCHANGED <<error, configVars, universeVars, outcome, netVars>>

\* if (!currentGasPrice) throw new Error("Current gas price not found")
MissingGasPrice == Raise("aborted", "Current gas price not found")

\* one more provider.getFeeData call for the token at ti, which returned gas price g
FeeReadCounted(g) ==
    [token |-> ti, count |-> IF feeReads.token = ti THEN feeReads.count + 1 ELSE 1,
     gasPrice |-> g]

\* provider.getFeeData, then the selection, up to the first batch
GetFeeData ==
    /\ pc = "fee"
    /\ \E g \in FeeReadings :
         /\ feeMissing' = (g = 0)
         /\ feeReads' = FeeReadCounted(g)
         /\ IF g = 0
            THEN MissingGasPrice
            ELSE /\ IF ~ChunkArrayLoopEnds(SortDesc(FilterWorth(flowsToLiquidate, g)), batchSize)
                    THEN /\ currentGasPrice' = g
                         /\ pc' = "chunking"
                         /\ UNCHANGED <<ti, flowsToLiquidate, chunks, ci, tx>>
                    ELSE IF Select(flowsToLiquidate, g, batchSize) = <<>>
                    THEN EndOfToken
                    ELSE /\ currentGasPrice' = g
                         /\ chunks' = Select(flowsToLiquidate, g, batchSize)
                         /\ ci' = 1
                         /\ pc' = "assemble"
                         /\ UNCHANGED <<ti, flowsToLiquidate, tx>>
                 /\ UNCHANGED <<error, configVars, universeVars, outcome, netVars>>

\* _chunkArray with size <= 0 on a non-empty array: every iteration pushes an empty
\* slice to its local array and leaves i < array.length, so the call never returns
ChunkArrayNeverReturns ==
    /\ pc = "chunking"
    /\ UNCHANGED vars

GetFeeDataFails ==
    /\ pc = "fee"
    /\ Raise("aborted", "getFeeData")
    /\ feeMissing' = feeMissing
    /\ feeReads' = FeeReadCounted(0)

(***************************************************************************)
(* batchLiquidateFlows: one step per awaited call, all inside its try      *)
(***************************************************************************)
\* variant: batchLiquidateFlows is not awaited, so the for loop over chunks starts the
\* next batch as soon as this one suspends
StepToNotAwaited(where, request) ==
    IF ci < Len(chunks)
    THEN /\ pc' = "assemble"
         /\ ci' = ci + 1
         /\ tx' = NoTx
         /\ UNCHANGED <<error, outcome, ti, flowsToLiquidate, currentGasPrice, chunks,
                        feeVars>>
    ELSE /\ pc' = where
         /\ tx' = request
         /\ UNCHANGED <<error, outcome, ti, flowsToLiquidate, currentGasPrice, chunks, ci,
                        feeVars>>

\* the batch goes on to its next awaited call (await: nothing else of the run runs
\* until the call returns)
StepTo(where, request) ==
    /\ pc' = where
    /\ tx' = request
    /\ UNCHANGED <<error, outcome, ti, flowsToLiquidate, currentGasPrice, chunks, ci,
                   feeVars>>

\* variant: the token check left out
WrongTokenNotChecked(addr, flows) == FALSE

\* !flows.every(flow => flow.token === token)
HasWrongToken(addr, flows) == \E i \in 1..Len(flows) : flows[i].token # addr

\* _generateBatchLiquidationTxData: the token check and the encoded call
_generateBatchLiquidationTxData ==
    /\ pc = "assemble"
    /\ signCalls' = 0
    /\ broadcastCalls' = 0
    /\ IF HasWrongToken(tokenAddrs[ti], chunks[ci])
       THEN BatchThrows("flow with wrong token")
       ELSE StepTo("estimate",
                   [tx EXCEPT !.to = "batchLiquidator",
                              !.data = <<tokenAddrs[ti],
                                         [i \in 1..Len(chunks[ci]) |-> chunks[ci][i].id]>>])
    /\ UNCHANGED <<configVars, universeVars, chainNonce, pending, lastSent>>

\* encodeFunctionData or getAddress throws, which the token check comes before
GenerateTxDataFails ==
    /\ pc = "assemble"
    /\ ~HasWrongToken(tokenAddrs[ti], chunks[ci])
    /\ signCalls' = 0
    /\ broadcastCalls' = 0
    /\ BatchThrows("encodeFunctionData")
    /\ UNCHANGED <<configVars, universeVars, chainNonce, pending, lastSent>>

\* _estimateGasLimit: Math.floor(Number(gasEstimate) * this.gasMultiplier)
_estimateGasLimit ==
    /\ pc = "estimate"
    /\ StepTo("getNetwork",
              [tx EXCEPT !.gasLimit = Floor(GasEstimate(Len(chunks[ci])) * gasMultiplierNum,
                                            gasMultiplierDen)])
    /\ UNCHANGED <<configVars, universeVars, netVars>>

EstimateGasFails ==
    /\ pc = "estimate"
    /\ BatchThrows("estimateGas")
    /\ UNCHANGED <<configVars, universeVars, netVars>>

\* chainId: (await this.provider.getNetwork()).chainId
GetNetwork ==
    /\ pc = "getNetwork"
    /\ StepTo("getTransactionCount", [tx EXCEPT !.chainId = ChainId])
    /\ UNCHANGED <<configVars, universeVars, netVars>>

GetNetworkFails ==
    /\ pc = "getNetwork"
    /\ BatchThrows("getNetwork")
    /\ UNCHANGED <<configVars, universeVars, netVars>>

\* variant: DRY_RUN is not looked at
DryRunIgnored == FALSE

\* if (process.env.DRY_RUN)
DryRun == DRY_RUN

\* variant: the nonce of the run's last broadcast is used again
NonceOfLastSent == IF lastSent.nonce >= 0 THEN lastSent.nonce ELSE chainNonce

\* what provider.getTransactionCount(address) returns: the confirmed count (block tag "latest")
NonceRead == chainNonce

\* nonce: await this.provider.getTransactionCount(...): the request is complete;
\* in dry-run it is logged and the batch is over, otherwise it goes to the signer
GetTransactionCount ==
    /\ pc = "getTransactionCount"
    /\ LET request == [tx EXCEPT !.gasPrice = BidPrice(currentGasPrice), !.nonce = NonceRead]
       IN  IF DryRun
           THEN BatchReturns([kind |-> "DryRun", error |-> "none", logged |-> <<request>>])
           ELSE StepTo("sign", request)
    /\ UNCHANGED <<configVars, universeVars, netVars>>

GetTransactionCountFails ==
    /\ pc = "getTransactionCount"
    /\ BatchThrows("getTransactionCount")
    /\ UNCHANGED <<configVars, universeVars, netVars>>

\* await this.wallet.signTransaction(tx)
SignTransaction ==
    /\ pc = "sign"
    /\ signCalls' = signCalls + 1
    /\ StepTo("broadcast", tx)
    /\ UNCHANGED <<configVars, universeVars, chainNonce, pending, lastSent, broadcastCalls>>

SignTransactionFails ==
    /\ pc = "sign"
    /\ signCalls' = signCalls + 1
    /\ BatchThrows("signTransaction")
    /\ UNCHANGED <<configVars, universeVars, chainNonce, pending, lastSent, broadcastCalls>>

\* the node takes a transaction whose nonce is not used up, and replaces an unmined
\* one of the same nonce only for a higher gas price
NodeAccepts(request) ==
    /\ request.nonce >= chainNonce
    /\ IF pending = <<>> THEN TRUE ELSE request.gasPrice > pending[1].gasPrice

\* await this.provider.broadcastTransaction(signedTx)
BroadcastTransaction ==
    /\ pc = "broadcast"
    /\ NodeAccepts(tx)
    /\ broadcastCalls' = broadcastCalls + 1
    /\ pending' = <<[nonce |-> tx.nonce, gasPrice |-> tx.gasPrice]>>
    /\ lastSent' = [nonce |-> tx.nonce, mined |-> FALSE]
    /\ StepTo("wait", tx)
    /\ UNCHANGED <<configVars, universeVars, chainNonce, signCalls>>

\* the node rejects the transaction, or the call fails
BroadcastTransactionFails ==
    /\ pc = "broadcast"
    /\ broadcastCalls' = broadcastCalls + 1
    /\ BatchThrows("broadcastTransaction")
    /\ UNCHANGED <<configVars, universeVars, chainNonce, pending, lastSent, signCalls>>

\* network: the unmined transaction is included in a block
Mined ==
    /\ pending # <<>>
    /\ chainNonce' = pending[1].nonce + 1
    /\ pending' = <<>>
    /\ lastSent' = [lastSent EXCEPT !.mined = TRUE]

\* await transactionResponse.wait(): included and successful
WaitConfirmed ==
    /\ pc = "wait"
    /\ Mined
    /\ BatchReturns([kind |-> "Confirmed", error |-> "none", logged |-> <<>>])
    /\ UNCHANGED <<configVars, universeVars, signCalls, broadcastCalls>>

\* wait() throws: the transaction was included and reverted
WaitReverted ==
    /\ pc = "wait"
    /\ Mined
    /\ BatchThrows("CALL_EXCEPTION")
    /\ UNCHANGED <<configVars, universeVars, signCalls, broadcastCalls>>

\* wait() throws while the transaction is still unmined (the receipt lookup fails)
WaitFails ==
    /\ pc = "wait"
    /\ BatchThrows("wait")
    /\ UNCHANGED <<configVars, universeVars, netVars>>

\* network: a transaction left unmined by an earlier batch is included later; the run
\* observes it at its next nonce lookup and at its next broadcast, so the inclusion is
\* placed right before either
MinePending ==
    /\ pc \in {"getTransactionCount", "broadcast"}
    /\ Mined
    /\ UNCHANGED <<pc, error, configVars, universeVars, ti, flowsToLiquidate,
                   currentGasPrice, chunks, ci, tx, outcome, feeVars, signCalls,
                   broadcastCalls>>

Next ==
    \/ Construct
    \/ ConstructFails
    \/ ResolveTokens
    \/ ResolveTokensFails
    \/ GetFlowsToLiquidate
    \/ GetFlowsToLiquidateFails
    \/ GetFeeData
    \/ GetFeeDataFails
    \/ ChunkArrayNeverReturns
    \/ _generateBatchLiquidationTxData
    \/ GenerateTxDataFails
    \/ _estimateGasLimit
    \/ EstimateGasFails
    \/ GetNetwork
    \/ GetNetworkFails
    \/ GetTransactionCount
    \/ GetTransactionCountFails
    \/ SignTransaction
    \/ SignTransactionFails
    \/ BroadcastTransaction
    \/ BroadcastTransactionFails
    \/ WaitConfirmed
    \/ WaitReverted
    \/ WaitFails
    \/ MinePending

Spec == Init /\ [][Next]_vars

\* the run under the scheduling of the event loop: a step that can be taken is taken at
\* some time, every awaited call returning or failing
SpecLive == Init /\ [][Next]_vars /\ WF_vars(Next)

(***************************************************************************)
(* The policy and the selection on their own: the inputs are drawn in the  *)
(* initial state and one step applies lines 120-127 to them                *)
(***************************************************************************)
\* longest flow list of the selection on its own
MaxSelectFlows == 2

SelectFlowShapes ==
    [flowrate : {0, 1, 3}, consumedDepositPercentage : {undefinedPct, 100, 200, 700, 6100, 7000}]

SelectFlowLists ==
    UNION { { [i \in 1..n |-> [id |-> i, token |-> "t1", flowrate |-> f[i].flowrate,
                               consumedDepositPercentage |-> f[i].consumedDepositPercentage]]
              : f \in [1..n -> SelectFlowShapes] }
            : n \in 1..MaxSelectFlows }

\* priceNum of the price entries: 1/3, 2/3 and 10 USD per 10^17 wei
PriceNums == {1, 2, 30}

PriceTables == { [t \in {} |-> 0] } \cup { [t \in {"t1"} |-> n] : n \in PriceNums }

SelectLimitConfigs ==
    { [reference |-> 100, fallback |-> 1000, min |-> 10],
      [reference |-> 7, fallback |-> 50, min |-> 5] }

InitSelect ==
    /\ pc = "select"
    /\ error = "none"
    /\ batchSize \in BatchSizes
    /\ \E l \in SelectLimitConfigs :
         /\ referenceGasPriceLimit = l.reference
         /\ fallbackGasPriceLimit = l.fallback
         /\ minGasPriceLimit = l.min
    /\ tokenPrices \in PriceTables
    /\ DRY_RUN = FALSE
    /\ isListed = IsListedArgument
    /\ token = <<"t1">>
    /\ tokenAddrs = <<"t1">>
    /\ listingQueries = <<>>
    /\ ti = 1
    /\ flowsToLiquidate \in SelectFlowLists
    /\ currentGasPrice = 0
    /\ chunks = <<>>
    /\ ci = 0
    /\ tx = NoTx
    /\ outcome = NoOutcome
    /\ chainNonce = 0
    /\ pending = <<>>
    /\ lastSent = [nonce |-> -1, mined |-> FALSE]
    /\ feeMissing = FALSE
    /\ feeReads = [token |-> 0, count |-> 0, gasPrice |-> 0]
    /\ signCalls = 0
    /\ broadcastCalls = 0

\* lines 120-127 for a fee reading g > 0
SelectFlows ==
    /\ pc = "select"
    /\ \E g \in FeeReadings \ {0} :
         /\ currentGasPrice' = g
         /\ IF ~ChunkArrayLoopEnds(SortDesc(FilterWorth(flowsToLiquidate, g)), batchSize)
            THEN pc' = "chunking" /\ chunks' = chunks
            ELSE pc' = "selected" /\ chunks' = Select(flowsToLiquidate, g, batchSize)
    /\ UNCHANGED <<error, configVars, universeVars, ti, flowsToLiquidate, ci, tx, outcome,
                   netVars, feeVars>>

NextSelect == SelectFlows \/ ChunkArrayNeverReturns

SpecSelect == InitSelect /\ [][NextSelect]_vars

(***************************************************************************)
(* Properties                                                              *)
(***************************************************************************)
BatchSteps == {"assemble", "estimate", "getNetwork", "getTransactionCount",
               "sign", "broadcast", "wait"}

\* the flows the properties of the policy range over
FlowsInState == {flowsToLiquidate[i] : i \in 1..Len(flowsToLiquidate)}

\* the base ceiling as the documentation states it: the fallback only without a price entry
DocumentedBase(flow) ==
    IF flow.token \in DOMAIN tokenPrices
    THEN Max(minGasPriceLimit,
             Round(DailyNFR(flow, tokenPrices) * referenceGasPriceLimit, refDailyNFR))
    ELSE fallbackGasPriceLimit

\* C6: the base ceiling of every flow is the fallback limit if its token has no price
\* entry and max(minGasPriceLimit, round(dailyNFR * referenceGasPriceLimit / refDailyNFR))
\* if it has one, whatever the flowrate, and the result is round(base * multiplier).
C6_BaseCeilingAsDocumented ==
    pc = "selected" => \A flow \in FlowsInState :
        /\ BaseMaxGasPrice(flow, tokenPrices) = DocumentedBase(flow)
        /\ _calculateMaxGasPrice(flow)
             = Round(DocumentedBase(flow) * TimeMultiplierNum(flow), TimeMultiplierDen)

\* C7: maxGasPrice is non-decreasing in consumedDepositPercentage (two flows that
\* differ only in it) and non-decreasing in the price of the flow's token (two price
\* tables that differ only in it).
C7_Monotone ==
    pc = "selected" =>
    /\ \A a \in FlowsInState : \A b \in FlowsInState :
          ( /\ a.token = b.token
            /\ a.flowrate = b.flowrate
            /\ a.consumedDepositPercentage # undefinedPct
            /\ b.consumedDepositPercentage # undefinedPct
            /\ a.consumedDepositPercentage <= b.consumedDepositPercentage )
          => _calculateMaxGasPrice(a) <= _calculateMaxGasPrice(b)
    /\ \A flow \in FlowsInState : \A n \in PriceNums :
          ( /\ flow.token \in DOMAIN tokenPrices
            /\ tokenPrices[flow.token] <= n )
          => _calculateMaxGasPrice(flow)
               <= CalculateMaxGasPriceWith(flow, [tokenPrices EXCEPT ![flow.token] = n])

\* C8: the multiplier is 1 for a percentage <= 100 or absent, 1 + (pct - 100) * 4 / 2400
\* for 100 < pct < 6100 (7/6 at 200) and 11 from 6100 on; it lies in [1, 11] and
\* maxGasPrice never exceeds 11 times the base ceiling.
C8_TimeMultiplier ==
    pc = "selected" => \A flow \in FlowsInState :
        LET pct == flow.consumedDepositPercentage
            num == TimeMultiplierNum(flow)
            den == TimeMultiplierDen
        IN  /\ (pct = undefinedPct \/ pct <= 100) => num = den
            /\ (pct > 100 /\ pct < 6100) => num * 2400 = den * (2400 + (pct - 100) * 4)
            /\ pct = 200 => num * 6 = den * 7
            /\ pct >= 6100 => num = 11 * den
            /\ den <= num /\ num <= 11 * den
            /\ _calculateMaxGasPrice(flow) <= 11 * BaseMaxGasPrice(flow, tokenPrices)
            /\ _calculateMaxGasPrice(flow) >= BaseMaxGasPrice(flow, tokenPrices)

\* C8 witness: a selection was made over a flow past the cap and a flow inside the ramp
C8_Witness ==
    /\ pc = "selected"
    /\ \E a \in FlowsInState : a.consumedDepositPercentage = 7000
         /\ _calculateMaxGasPrice(a) = 11 * BaseMaxGasPrice(a, tokenPrices)
    /\ \E b \in FlowsInState : b.consumedDepositPercentage = 200

(***************************************************************************)
(* Properties of the run                                                   *)
(***************************************************************************)
\* the errors that leave processAll: thrown outside batchLiquidateFlows
RunErrors == {"resolveAddress", "getSuperTokens", "getFlowsToLiquidate", "getFeeData",
              "Current gas price not found"}

\* the position after the batch at <<ti, ci>>: its successor batch, else the next token,
\* else the end of the run
AtNextBatchOrToken ==
    IF ci < Len(chunks)
    THEN pc' = "assemble" /\ ci' = ci + 1 /\ ti' = ti /\ chunks' = chunks
    ELSE IF ti < Len(tokenAddrs)
         THEN pc' = "fetch" /\ ti' = ti + 1
         ELSE pc' = "done"

\* a step taken from inside a batch keeps the run going
BatchStepIsolated ==
    pc \in BatchSteps =>
        \/ pc' \in BatchSteps /\ ci' = ci /\ ti' = ti /\ outcome' = outcome
        \/ /\ outcome'.kind \in {"Confirmed", "DryRun", "Failed"}
           /\ outcome'.kind = "Failed" <=> outcome'.error # "none"
           /\ AtNextBatchOrToken

\* C1: a failure at any step of a batch is caught at the batch boundary: from a step of
\* a batch the run either stays in that batch or records the batch's outcome and goes
\* on to the next batch of the token, else to the next token, else to Done; it never
\* aborts, and a run that did abort was aborted by an error from outside the batches.
C1_BatchFailureIsolated ==
    /\ [][BatchStepIsolated]_vars
    /\ [](pc = "aborted" => error \in RunErrors)

\* C1 witness: the second batch of a token is at gas estimation after the first batch
\* failed in the confirmation wait
C1_Witness ==
    /\ pc = "estimate"
    /\ ci = 2
    /\ outcome.kind = "Failed"
    /\ outcome.error = "wait"

\* C2 as claimed: a missing gas price does not abort the run.
C2_MissingGasPriceKeepsRunning ==
    feeMissing => pc # "aborted"

\* C2 as amended: when getFeeData returns no (or a zero) gas price, no batch of that
\* token is submitted and processAll throws "Current gas price not found": the run is
\* aborted there and the remaining tokens are not fetched.
C2_MissingGasPriceAborts ==
    /\ [](feeMissing =>
            /\ pc = "aborted"
            /\ error = "Current gas price not found"
            /\ flowsToLiquidate # <<>>
            /\ chunks = <<>>
            /\ tx = NoTx)
    /\ [][feeMissing => UNCHANGED vars]_vars

\* C2 witness: the run aborted on the first of two tokens for want of a gas price
C2_Witness ==
    /\ feeMissing
    /\ pc = "aborted"
    /\ ti = 1
    /\ Len(tokenAddrs) = 2

\* the request is fully assembled: to, data, gasLimit, gasPrice, chainId, nonce
FullyAssembled(request) ==
    /\ request.to = "batchLiquidator"
    /\ request.data # <<>>
    /\ request.gasLimit > 0
    /\ request.gasPrice > 0
    /\ request.chainId = ChainId
    /\ request.nonce >= 0

\* C3: with DRY_RUN set, signTransaction and broadcastTransaction are never called, no
\* transaction reaches the network, and a batch that gets through assembly ends with
\* its fully assembled request logged.
C3_DryRunNeverSigns ==
    DRY_RUN =>
        /\ signCalls = 0
        /\ broadcastCalls = 0
        /\ pc \notin {"sign", "broadcast", "wait"}
        /\ pending = <<>>
        /\ lastSent.nonce = -1
        /\ outcome.kind \in {"none", "DryRun", "Failed"}
        /\ outcome.kind = "DryRun" =>
              /\ Len(outcome.logged) = 1
              /\ FullyAssembled(outcome.logged[1])

\* C3 witness: a dry run is over and its last batch was logged
C3_Witness ==
    /\ DRY_RUN
    /\ pc = "done"
    /\ outcome.kind = "DryRun"

\* C4 as claimed: the nonces of successive broadcasts are strictly increasing, whatever
\* the outcome of the earlier batches.
C4_NoncesStrictlyIncrease ==
    [][(pc = "broadcast" /\ pc' = "wait") => tx.nonce > lastSent.nonce]_vars

\* the nonce a batch reads, and the nonce a broadcast carries, against the last broadcast
NonceReadInOrder ==
    (pc = "getTransactionCount" /\ pc' = "sign") =>
        /\ tx.nonce = -1
        /\ tx'.nonce >= lastSent.nonce
        /\ lastSent.mined => tx'.nonce > lastSent.nonce

BroadcastInOrder ==
    (pc = "broadcast" /\ pc' = "wait") =>
        /\ tx.nonce >= lastSent.nonce
        /\ lastSent.mined => tx.nonce > lastSent.nonce

\* C4 as amended: the nonce of a batch is the confirmed transaction count read for that
\* batch, between the end of the previous batch and signing; the nonces of successive
\* broadcasts never decrease, and they increase strictly when the earlier broadcast
\* transaction had been mined by then.
C4_NoncesNeverDecrease ==
    /\ [][NonceReadInOrder]_vars
    /\ [][BroadcastInOrder]_vars
    /\ [](pc \in {"assemble", "estimate", "getNetwork", "getTransactionCount"}
            => tx.nonce = -1)

\* C4 witness: a batch is broadcast with a higher nonce after an earlier broadcast of
\* the run was mined
C4_Witness ==
    /\ pc = "wait"
    /\ outcome.kind = "Confirmed"
    /\ lastSent.nonce = tx.nonce
    /\ tx.nonce > MaxInitNonce

\* C5: the gas price of every assembled transaction is at most the ceiling of every
\* flow of its batch.
C5_BidWithinCeilings ==
    (pc \in {"sign", "broadcast", "wait"}) =>
        \A i \in 1..Len(chunks[ci]) : tx.gasPrice <= _calculateMaxGasPrice(chunks[ci][i])

RECURSIVE Flatten(_)
Flatten(batches) ==
    IF batches = <<>> THEN <<>> ELSE Head(batches) \o Flatten(Tail(batches))

Occurrences(flow, flows) == Cardinality({i \in 1..Len(flows) : flows[i] = flow})

\* C9: the batches hold each flow with maxGasPrice >= currentGasPrice exactly once and
\* no other flow; no batch is empty or longer than batchSize and all but the last are
\* full; a submission step happens only for a token with a qualifying flow.
C9_ExactPartition ==
    /\ pc \in BatchSteps =>
          /\ \A flow \in FlowsInState :
                Occurrences(flow, Flatten(chunks))
                  = IF _calculateMaxGasPrice(flow) >= currentGasPrice THEN 1 ELSE 0
          /\ \A i \in 1..Len(Flatten(chunks)) : Flatten(chunks)[i] \in FlowsInState
          /\ \A k \in 1..Len(chunks) :
                /\ Len(chunks[k]) >= 1
                /\ Len(chunks[k]) <= batchSize
                /\ k < Len(chunks) => Len(chunks[k]) = batchSize
          /\ ci \in 1..Len(chunks)
          /\ \E flow \in FlowsInState : _calculateMaxGasPrice(flow) >= currentGasPrice
    /\ pc \notin BatchSteps => chunks = <<>> /\ tx = NoTx

\* C9 witness: three qualifying flows in batches of two, the last batch in submission,
\* next to a flow list with a flow that did not qualify
C9_Witness ==
    /\ pc = "sign"
    /\ batchSize = 2
    /\ Len(chunks) = 2
    /\ ci = 2
    /\ Len(chunks[2]) = 1

\* the batch index moves from the first batch to each successor, then to the next token
BatchesInOrder ==
    ci' # ci =>
        \/ ci = 0 /\ ci' = 1 /\ pc = "fee"
        \/ ci' = ci + 1 /\ chunks' = chunks /\ ti' = ti
        \/ ci' = 0 /\ ci = Len(chunks)

\* C10: the flows of the batches, flattened in batch order, are non-increasing by
\* maxGasPrice, and the batches are submitted in that order: first batch first, each
\* next batch the successor of the one before.
C10_DescendingOrder ==
    /\ [](pc \in BatchSteps =>
            \A i \in 1..Len(Flatten(chunks)) : \A j \in 1..Len(Flatten(chunks)) :
                i < j => _calculateMaxGasPrice(Flatten(chunks)[i])
                           >= _calculateMaxGasPrice(Flatten(chunks)[j]))
    /\ [][BatchesInOrder]_vars

\* C10 witness: the second batch is in submission and the Flow Source had returned the
\* flows in another order than the one they are submitted in
C10_Witness ==
    /\ pc = "broadcast"
    /\ ci = 2
    /\ Flatten(chunks) # FilterWorth(flowsToLiquidate, currentGasPrice)
    /\ _calculateMaxGasPrice(chunks[1][1]) > _calculateMaxGasPrice(chunks[2][1])

\* the positions of a run that resolves tokens, fetches flows or submits batches
RunPositions == {"constructed", "fetch", "fee", "chunking"} \cup BatchSteps

\* the ordering the policy asks of the limits
PolicyOrdered ==
    /\ Leq(minGasPriceLimit, fallbackGasPriceLimit)
    /\ Leq(minGasPriceLimit, referenceGasPriceLimit)

\* one step of the program keeps the policy config as the claim states it
PolicyConfigKept ==
    /\ pc' \in RunPositions => PolicyOrdered'
    /\ (pc = "new" /\ ~PolicyOrdered) =>
          /\ pc' = "fatal"
          /\ flowsToLiquidate' = <<>>
          /\ tx' = NoTx
    /\ UNCHANGED <<referenceGasPriceLimit, fallbackGasPriceLimit, minGasPriceLimit>>

\* C11: whenever a run is resolving tokens, fetching flows or submitting batches,
\* minGasPriceLimit <= fallbackGasPriceLimit and minGasPriceLimit <= referenceGasPriceLimit;
\* constructing with a config that violates either ends in a fatal error before any
\* flow is fetched or any transaction assembled; the config never changes during a run.
C11_PolicyConfigOrdered == [][PolicyConfigKept]_vars

\* C12: started without a token address, the run queries the Token Listing Source once,
\* with isListedOnly = true, and processes exactly the listed tokens; started with a
\* token address, it processes exactly that token, lower-cased, and the Token Listing
\* Source is not queried.
C12_TokenUniverse ==
    ti >= 1 =>
        IF token = <<>>
        THEN /\ listingQueries = <<"true">>
             /\ tokenAddrs = ListedTokens
        ELSE /\ listingQueries = <<>>
             /\ tokenAddrs = <<ToLowerCase(token[1])>>

BatchOutcomes == {"Confirmed", "DryRun", "Failed"}

\* one step of a run: an outcome is recorded only for the batch in progress, a batch
\* starts only as the first of its token or once its predecessor has its outcome, and
\* the run leaves a token only once the last of its batches has its outcome
SequentialStep ==
    /\ outcome' # outcome =>
          /\ pc \in BatchSteps
          /\ outcome'.token = ti /\ outcome'.batch = ci
          /\ outcome'.kind \in BatchOutcomes
    /\ (ci' # ci /\ ci' # 0) =>
          /\ pc' = "assemble" /\ tx' = NoTx
          /\ IF ci' = 1
             THEN pc = "fee" /\ ci = 0
             ELSE /\ pc \in BatchSteps /\ ci' = ci + 1 /\ ti' = ti
                  /\ outcome'.token = ti /\ outcome'.batch = ci
    /\ (ti' # ti /\ ti # 0) =>
          /\ ti' = ti + 1 /\ pc' = "fetch"
          /\ \/ pc \in {"fetch", "fee"} /\ chunks = <<>>
             \/ /\ pc \in BatchSteps /\ ci = Len(chunks)
                /\ outcome'.token = ti /\ outcome'.batch = ci

\* C13: submission is strictly sequential: the only batch in progress is the one at
\* <<ti, ci>>; no step of batch k+1 of a token happens before batch k has its outcome
\* (confirmed, dry-run logged or failed), and the flows of the next token are fetched
\* only after every batch of the current token has its outcome.
C13_StrictlySequential ==
    /\ [][SequentialStep]_vars
    /\ [](pc \in BatchSteps =>
            /\ ci \in 1..Len(chunks)
            /\ ci > 1 => /\ outcome.token = ti /\ outcome.batch = ci - 1
                         /\ outcome.kind \in BatchOutcomes)
    /\ [](pc \notin BatchSteps => tx = NoTx)

\* C13 witness: the second batch of the second token is about to be signed, after the
\* first batch of that token was confirmed
C13_Witness ==
    /\ pc = "sign"
    /\ ti = 2 /\ ci = 2
    /\ outcome.token = 2 /\ outcome.batch = 1
    /\ outcome.kind = "Confirmed"

\* the batch in assembly holds a flow of another token than the one it is submitted for
WrongTokenBatch ==
    /\ pc = "assemble"
    /\ \E i \in 1..Len(chunks[ci]) : chunks[ci][i].token # tokenAddrs[ti]

\* the step of a wrong-token batch: it ends the batch Failed without touching the
\* network or the signer, and the run is at the next batch or token
WrongTokenStep ==
    WrongTokenBatch =>
        /\ outcome'.kind = "Failed"
        /\ outcome'.error = "flow with wrong token"
        /\ outcome'.token = ti /\ outcome'.batch = ci
        /\ AtNextBatchOrToken
        /\ error' = error
        /\ signCalls' = 0 /\ broadcastCalls' = 0
        /\ UNCHANGED <<chainNonce, pending, lastSent>>

\* C14: a batch with a flow of another token than the one it is submitted for fails at
\* assembly: no gas estimate, nonce lookup, signature or broadcast happens for it, it
\* ends Failed, it is not tried again and the run goes on with the next batch.
C14_WrongTokenRejected ==
    /\ [][WrongTokenStep]_vars
    /\ [](pc \in BatchSteps \ {"assemble"} =>
            \A i \in 1..Len(chunks[ci]) : chunks[ci][i].token = tokenAddrs[ti])
    /\ [][ci' # ci => (ci' = ci + 1 \/ ci' = 0 \/ ci = 0)]_vars

\* C14 witness: the second batch of a token is at gas estimation after the first one
\* was rejected for a flow of another token
C14_Witness ==
    /\ pc = "estimate"
    /\ ci = 2
    /\ outcome.error = "flow with wrong token"
    /\ outcome.token = ti /\ outcome.batch = 1

\* one step of a run reads the fee only for a token with flows to liquidate, keeps the
\* reading over the batches of the token and logs a dry-run request with the bid
FeeReadStep ==
    /\ feeReads' # feeReads =>
          /\ pc = "fee"
          /\ flowsToLiquidate # <<>>
          /\ feeReads'.token = ti
          /\ feeReads'.count = 1
    /\ (ci' # ci /\ ci' > 1) =>
          /\ currentGasPrice' = currentGasPrice
          /\ feeReads' = feeReads
    /\ (outcome' # outcome /\ outcome'.kind = "DryRun") =>
          outcome'.logged[1].gasPrice = (currentGasPrice * 12) \div 10

\* C15: the fee is read at most once per token, and only for a token whose flow list
\* is not empty; the batches of the token are the selection made with that reading, and
\* the request of every batch of the token carries floor(reading * 1.2) as gas price,
\* whatever the ceilings of its flows.
C15_OneFeeReadingOneBid ==
    /\ [][FeeReadStep]_vars
    /\ [](feeReads.count <= 1)
    /\ [](pc \in BatchSteps =>
            /\ feeReads.token = ti /\ feeReads.count = 1
            /\ currentGasPrice = feeReads.gasPrice
            /\ chunks = Select(flowsToLiquidate, feeReads.gasPrice, batchSize))
    /\ [](pc \in {"sign", "broadcast", "wait"} =>
            tx.gasPrice = (feeReads.gasPrice * 12) \div 10)

\* C15 witness: the second batch of the second token is broadcast with the bid of the
\* token's one reading, 250, though its flow has another ceiling than the first batch's
C15_Witness ==
    /\ pc = "wait"
    /\ ti = 2 /\ ci = 2
    /\ feeReads = [token |-> 2, count |-> 1, gasPrice |-> 250]
    /\ tx.gasPrice = 300
    /\ _calculateMaxGasPrice(chunks[1][1]) # _calculateMaxGasPrice(chunks[2][1])
    /\ pending # <<>>

\* the run is over: processAll returned, or an error left it or the constructor
RunOver == pc \in {"done", "aborted", "fatal"}

\* C16: every run comes to an end, Done or a fatal error, whatever the token universe,
\* the flow lists and the batchSize the constructor accepted, every network call
\* returning or failing at some time; each batch is submitted at most once, the batch
\* index only moving forward.
C16_RunTerminates ==
    /\ <>RunOver
    /\ [][(pc \in BatchSteps /\ ci' # ci) => (ci' = ci + 1 \/ ci' = 0)]_vars

====
